---- MODULE Spec2Model ----
(***************************************************************************)
(* Model of the Telegram channel parser: the scroll-and-collect engine     *)
(* ChannelParser._get_posts with the post extractor and the date filter    *)
(* (src/parser_modules/channel_parser.py), parse_channel around it, and    *)
(* the batch loop of main (src/main.py).                                   *)
(*                                                                         *)
(* The browser page is the environment.  Its answers are drawn with \E at  *)
(* the call that reads them.  Three kinds of page are modelled:            *)
(*   "arbitrary"  any element list every round, any scroll movement, and   *)
(*                any page call may raise;                                 *)
(*   "static"     the same posts lo..NPosts are rendered in every round,   *)
(*                identifiers are readable, no page call raises;           *)
(*   "history"    a chat history that renders posts lo..NPosts, loads one  *)
(*                older post whenever the region is scrolled to its top,   *)
(*                and never raises.                                        *)
(* Post p (1 = oldest, NPosts = newest) was sent on day DayOf(p).          *)
(***************************************************************************)
EXTENDS Integers, Sequences, FiniteSets, TLC

\* ------------------------------------------------------------ bounds
NPosts == 3
MaxLimit == 2
MaxElems == 2
MaxChannels == 2
FilterDay == 2
MaxDepth == 2
MaxItems == 2
MaxRows == 2
MaxLen == 3
MaxContainers == 2
MaxBatch == 12
MaxOffsetSteps == 10

\* ------------------------------------------------- program constants
max_no_new_attempts == 5
scroll_batch_size == 10
ScrollStepPx == 800
TopEpsilon == 10
NullId == 0
UnknownId == -1
NoDate == 0
LoginPolls == 30
DefaultBatchSize == 10
DefaultLimit == 100
ArgDefaultLimit == 100
NaNCount == -1
NoInteger == -1
CaptchaPolls == 60

VARIABLES
  \* configuration (Config) and page
  post_limit, start_date, end_date,
  pageKind, hasColumn, scrollTop, lo,
  \* parse_channel / _get_posts
  pc, channel_info, posts, processed_ids, consecutive_no_new_posts,
  new_posts_in_batch, remaining, retval, result,
  \* observation of the run
  endReason, boundary_seen, last,
  \* main
  channels, chan_idx, attempted, exported, failed, mainPc,
  \* TelegramAuth.login
  authPc, force_login, marker, last_query, gate, polls, session_saved, browser_open,
  \* one call of a function of the extractor or the exporter
  fn_pc, fn_in, fn_out

engineVars == <<post_limit, start_date, end_date, pageKind, hasColumn, scrollTop, lo,
                pc, channel_info, posts, processed_ids, consecutive_no_new_posts,
                new_posts_in_batch, remaining, retval, result,
                endReason, boundary_seen, last>>
mainVars == <<channels, chan_idx, attempted, exported, failed, mainPc>>
authVars == <<authPc, force_login, marker, last_query, gate, polls, session_saved,
              browser_open>>
fnVars == <<fn_pc, fn_in, fn_out>>
auxVars == <<authVars, fnVars>>
vars == <<engineVars, mainVars, auxVars>>

PostIds == 1..NPosts
Days == 1..NPosts
DayOf(p) == p
Today == NPosts

Max(a, b) == IF a >= b THEN a ELSE b

\* Scroll offsets the arbitrary page may be found at: at the top bound, just
\* outside the epsilon, and further from the top than one batch scrolls.
ScrollPositions ==
  {0, TopEpsilon + 1, (scroll_batch_size + 1) * ScrollStepPx}

\* Offset of the history page when scrolled to the bottom with posts l..NPosts
\* rendered: one post is one scroll step high, the viewport half a step.
ViewportPx == ScrollStepPx \div 2
BottomOf(l) == (NPosts - l + 1) * ScrollStepPx - ViewportPx

\* ------------------------------------------------------------ elements
\* A rendered post element as the code reads it: mid is what the id script of
\* line 275 returns (NullId when the element has none of the three attributes).
\* dateEl says which date descendants exist: "none"; "group" (only a
\* .message-date-group, found by line 144 alone); "date" (only a .date, found
\* by lines 294 and 441 alone); "time" (a .time, found by lines 146, 294 and
\* 439).  ts says where a data-timestamp attribute sits: "own" on the
\* .time/.date element itself (read by lines 448-455 and found by the
\* descendant query of lines 155-163), "inner" on another descendant (found
\* by the descendant query only).  label is the form of the date text.
Labels == {"today", "yesterday", "abs", "junk"}
ElementsOf(mids) ==
  {e \in [mid : mids, dateEl : {"none", "group", "date", "time"},
          ts : {"none", "inner", "own"}, label : Labels] :
     e.ts = "own" => e.dateEl \in {"date", "time"}}

HasRangeDateEl(e) == e.dateEl \in {"group", "time"}
HasTimeOrDateEl(e) == e.dateEl \in {"date", "time"}

\* What a page call may do wrong while one element is processed: "mid" the id
\* script of line 275 raises; "range" a call inside _is_date_in_range raises;
\* "block" a call of lines 294-308 raises; "extract_id" the id script of line
\* 426 raises; "extract_null" it returns null; "date_field" a call of lines
\* 439-459 raises.
Faults ==
  IF pageKind = "arbitrary"
    THEN {"none", "mid", "range", "block", "extract_id", "extract_null", "date_field"}
    ELSE {"none"}

\* The day _is_date_in_range resolves for an element, NoDate when it resolves
\* none (lines 144-210): no date element, or no timestamp and a label that
\* matches no format.
ResolvedDay(e) ==
  IF ~HasRangeDateEl(e) THEN NoDate
  ELSE IF e.ts # "none" THEN DayOf(e.mid)
  ELSE CASE e.label = "today" -> Today
         [] e.label = "yesterday" -> Today - 1
         [] e.label = "abs" -> DayOf(e.mid)
         [] OTHER -> NoDate

\* Faulty variant: an element whose date is not resolved is out of range.
IsDateInRangeStrict(e, fault) ==
  IF start_date = NoDate /\ end_date = NoDate THEN TRUE
  ELSE IF fault = "range" THEN FALSE
  ELSE LET d == ResolvedDay(e) IN
       IF d = NoDate THEN FALSE
       ELSE IF start_date # NoDate /\ d < start_date THEN FALSE
       ELSE IF end_date # NoDate /\ d > end_date THEN FALSE
       ELSE TRUE

\* _is_date_in_range (lines 137-223).
IsDateInRange(e, fault) ==
  IF start_date = NoDate /\ end_date = NoDate THEN TRUE
  ELSE IF fault = "range" THEN TRUE
  ELSE LET d == ResolvedDay(e) IN
       IF d = NoDate THEN TRUE
       ELSE IF start_date # NoDate /\ d < start_date THEN FALSE
       ELSE IF end_date # NoDate /\ d > end_date THEN FALSE
       ELSE TRUE

\* Lines 294-314: the element sets the stop condition when a .time/.date
\* element exists, a timestamp is found and its day is before start_date.
SetsStop(e) ==
  /\ HasTimeOrDateEl(e)
  /\ e.ts # "none"
  /\ DayOf(e.mid) < start_date

\* Faulty variant: the handler's record carries no id.
ExtractPostDataNoId(e, fault) ==
  IF fault = "extract_id" THEN [error |-> TRUE]
  ELSE LET id == IF fault = "extract_null" THEN NullId ELSE e.mid IN
       IF fault # "date_field" /\ HasTimeOrDateEl(e) /\ e.ts = "own"
         THEN [id |-> id, timestamp |-> DayOf(e.mid)]
         ELSE [id |-> id]

\* _extract_post_data (lines 420-587), the fields the engine's claims read: id,
\* timestamp (lines 439-459: only from the .time/.date element's own
\* attribute), and the placeholder of line 587.
ExtractPostData(e, fault) ==
  IF fault = "extract_id" THEN [id |-> UnknownId, error |-> TRUE]
  ELSE LET id == IF fault = "extract_null" THEN NullId ELSE e.mid IN
       IF fault # "date_field" /\ HasTimeOrDateEl(e) /\ e.ts = "own"
         THEN [id |-> id, timestamp |-> DayOf(e.mid)]
         ELSE [id |-> id]

\* ---------------------------------------------------------------- page
\* Where the region's offset may be after the page was left alone for a
\* while: the arbitrary and the static page may move it anywhere, the
\* history page leaves it where the script put it.
EnvMove(s) ==
  IF pageKind = "history" \/ ~hasColumn THEN {s} ELSE ScrollPositions \cup {s}

\* The history page loads one older post when the region is at its top and
\* older posts exist, and keeps the viewport on the same post.
CanLoad(x) == pageKind = "history" /\ x.top <= TopEpsilon /\ x.lo > 1
Load(x) ==
  IF CanLoad(x) THEN [x EXCEPT !.top = x.top + ScrollStepPx, !.lo = x.lo - 1] ELSE x

\* Faulty variant: the top bound compared with the scroll step instead of the epsilon.
AtTopScriptWide(s) == hasColumn /\ s <= ScrollStepPx

\* Faulty variant: the round never finds the region at its top.
AtTopScriptNever(s) == FALSE

\* The at-top script of lines 332-337.
AtTopScript(s) == hasColumn /\ s <= TopEpsilon

\* The scroll script of lines 346-366 on page state x = [top, lo, changed]:
\* no region or an offset within the epsilon returns false; otherwise the
\* offset drops by the step (the browser clamps it at 0) and the script
\* returns whether it changed.  Lines 368-369 fold the result into changed.
ScrollTick(x) ==
  IF ~hasColumn \/ x.top <= TopEpsilon THEN x
  ELSE LET new == Max(0, x.top - ScrollStepPx) IN
       [x EXCEPT !.top = new, !.changed = x.changed \/ (new # x.top)]

\* Lines 345-373: scroll_batch_size ticks, each followed by the short pause
\* in which the history page may load.  The set of page states after n ticks.
RECURSIVE ScrollBatch(_, _)
ScrollBatch(n, X) ==
  IF n = 0 THEN X
  ELSE ScrollBatch(n - 1, UNION {{ScrollTick(x), Load(ScrollTick(x))} : x \in X})

\* Faulty variant: the counter grows only when both conditions hold.
IdleUpdateAnd(new_posts, scroll_changed, count) ==
  IF new_posts = 0 /\ ~scroll_changed THEN count + 1 ELSE 0

\* Lines 402-407: the idle counter after a round.
IdleUpdate(new_posts, scroll_changed, count) ==
  IF new_posts = 0 \/ ~scroll_changed THEN count + 1 ELSE 0

\* The elements the query of line 258 returns in a round: their number, and
\* the identifier of the i-th (the static and the history page list the
\* rendered posts in document order, oldest on top).
ElementCounts ==
  IF pageKind = "arbitrary" THEN 0..MaxElems ELSE {NPosts - lo + 1}
MidsAt(n) ==
  IF pageKind = "arbitrary" THEN {NullId} \cup PostIds ELSE {NPosts - n + 1}

\* ------------------------------------------------------------- _get_posts
\* last observes the element step just taken: whether it handled a new
\* element (one that passed lines 284-287), the day the date filter resolved
\* for it, whether a record was appended, and whether the extractor failed
\* on it (returned through its handler of lines 585-587).
Nothing == [new |-> FALSE, day |-> NoDate, app |-> FALSE, xfail |-> FALSE]

\* Lines 256 and 328: the loop's exit tests.
LimitReached == Len(posts) >= post_limit
IdleExhausted == consecutive_no_new_posts >= max_no_new_attempts
\* Faulty variant: no duplicate test.
NeverSeen(mid) == FALSE
\* Faulty variant: no break in the element loop.
ElementLoopBreakNever == FALSE

\* Faulty variant: the record is put in front of the list.
CollectInFront(collected, post_data) == <<post_data>> \o collected

\* Line 321: the record is appended to the list.
Collect(collected, post_data) == Append(collected, post_data)

\* Faulty variant: the identifier is not recorded.
MarkProcessedNever(seen, mid) == seen

\* Line 287: the identifier is recorded before the date is checked.
MarkProcessed(seen, mid) == seen \cup {mid}

\* Line 284: the duplicate test.
AlreadySeen(mid) == mid \in processed_ids
\* Faulty variant: the element loop is also left once the stop was forced.
ElementLoopBreakOnStop == Len(posts) >= post_limit \/ IdleExhausted

\* Line 270: the element loop's break.
ElementLoopBreak == Len(posts) >= post_limit

ExitReason ==
  IF LimitReached THEN "limit_reached"
  ELSE IF boundary_seen THEN "date_boundary_reached"
  ELSE "idle_exhausted"

\* Lines 409-414: the normal return.
Return(reason) ==
  /\ retval' = posts
  /\ endReason' = reason
  /\ pc' = "returned"

\* Faulty variant: the handler returns an empty list.
OnEngineErrorLose(collected) == << >>

\* Lines 416-418: the handler around the whole loop returns what it has.
OnEngineError(collected) == collected

Except ==
  /\ retval' = OnEngineError(posts)
  /\ endReason' = "error"
  /\ pc' = "returned"
  /\ last' = Nothing

PageMayRaise == pageKind = "arbitrary"

pageVars == <<pageKind, hasColumn>>
configVars == <<post_limit, start_date, end_date>>

\* Faulty variant: the engine is started although the navigation raised.
AfterNavigateRun(ok) == "info"

\* Faulty variant: the engine is started right after the navigation.
AfterNavigateSkipInfo(ok) == IF ok THEN "init" ELSE "raised"

\* parse_channel, lines 39-40: an exception of _navigate_to_channel leaves
\* parse_channel; otherwise the metadata read is next.
AfterNavigate(ok) == IF ok THEN "info" ELSE "raised"

\* parse_channel, lines 39-40, and _navigate_to_channel, lines 54-81: the
\* navigation times out or finds no title and raises, or succeeds.
Navigate ==
  /\ pc = "navigate"
  /\ \E ok \in (IF PageMayRaise THEN BOOLEAN ELSE {TRUE}) :
       /\ pc' = AfterNavigate(ok)
       /\ endReason' = IF ok THEN "" ELSE "navigation_failed"
  /\ last' = Nothing
  /\ UNCHANGED <<configVars, pageVars, scrollTop, lo, channel_info, posts, processed_ids,
                 consecutive_no_new_posts, new_posts_in_batch, remaining, retval,
                 result, boundary_seen, mainVars, auxVars>>

\* The metadata reads that go wrong are tried in the runs with the smallest
\* limit only: the engine never looks at channel_info.
InfoMayFail == PageMayRaise /\ post_limit = 1

\* _get_channel_title (lines 126-135) never raises: the title text, or None
\* when the title element is gone or the query fails.
TitleReads == IF InfoMayFail THEN {"title", "None"} ELSE {"title"}

\* _get_channel_info (lines 83-124): the info carries the title as read; the
\* description and the subscriber count are read in handlers of their own;
\* the fallback of line 124 is returned when a statement outside them raises
\* (the read of page.url, line 114).
NoInfo == [title |-> ""]
InfoFallback == [title |-> "Unknown", error |-> TRUE]
ChannelInfos ==
  {[title |-> t] : t \in TitleReads} \cup (IF InfoMayFail THEN {InfoFallback} ELSE {})

\* parse_channel, lines 42-46: whatever the info is, _get_posts is next.
AfterInfo(info) == "init"

\* parse_channel, lines 42-43, and _get_channel_info.
GetChannelInfo ==
  /\ pc = "info"
  /\ \E info \in ChannelInfos :
       /\ channel_info' = info
       /\ pc' = AfterInfo(info)
  /\ last' = Nothing
  /\ UNCHANGED <<configVars, pageVars, scrollTop, lo, posts, processed_ids,
                 consecutive_no_new_posts, new_posts_in_batch, remaining, retval,
                 result, endReason, boundary_seen, mainVars, auxVars>>

\* Lines 227-254: the locals, the scroll to the bottom and the settle pause.
InitScroll ==
  /\ pc = "init"
  /\ posts' = << >>
  /\ processed_ids' = {}
  /\ consecutive_no_new_posts' = 0
  /\ \E raises \in (IF PageMayRaise THEN BOOLEAN ELSE {FALSE}) :
       IF raises
         THEN /\ retval' = OnEngineError(<< >>)
              /\ endReason' = "error"
              /\ pc' = "returned"
              /\ last' = Nothing
              /\ UNCHANGED scrollTop
         ELSE /\ \E s \in (IF pageKind = "history" THEN {BottomOf(lo)}
                           ELSE IF hasColumn THEN ScrollPositions ELSE {scrollTop}) :
                   scrollTop' = s
              /\ pc' = "loop"
              /\ last' = Nothing
              /\ UNCHANGED <<retval, endReason>>
  /\ UNCHANGED <<configVars, pageVars, lo, channel_info, new_posts_in_batch, remaining,
                 result, boundary_seen, mainVars, auxVars>>

\* Lines 256-266: the loop test, the element query, and the empty round.
QueryElements ==
  /\ pc = "loop"
  /\ IF LimitReached \/ IdleExhausted
       THEN /\ Return(ExitReason)
            /\ last' = Nothing
            /\ UNCHANGED <<consecutive_no_new_posts, new_posts_in_batch, remaining>>
       ELSE \E raises \in (IF PageMayRaise THEN BOOLEAN ELSE {FALSE}) :
              IF raises
                THEN /\ Except
                     /\ UNCHANGED <<consecutive_no_new_posts, new_posts_in_batch,
                                    remaining>>
                ELSE \E n \in ElementCounts :
                       IF n = 0
                         THEN /\ consecutive_no_new_posts' = consecutive_no_new_posts + 1
                              /\ pc' = "loop"
                              /\ last' = Nothing
                              /\ UNCHANGED <<new_posts_in_batch, remaining, retval,
                                             endReason>>
                         ELSE /\ new_posts_in_batch' = 0
                              /\ remaining' = n
                              /\ pc' = "for"
                              /\ last' = Nothing
                              /\ UNCHANGED <<consecutive_no_new_posts, retval,
                                             endReason>>
  /\ UNCHANGED <<configVars, pageVars, scrollTop, lo, channel_info, posts, processed_ids,
                 result, boundary_seen, mainVars, auxVars>>

\* Lines 269-325: one iteration of the element loop.
ProcessElement ==
  /\ pc = "for"
  /\ IF ElementLoopBreak
       THEN /\ pc' = "check"
            /\ remaining' = 0
            /\ last' = Nothing
            /\ UNCHANGED <<posts, processed_ids, consecutive_no_new_posts,
                           new_posts_in_batch, boundary_seen>>
       ELSE /\ remaining' = remaining - 1
            /\ pc' = IF remaining = 1 THEN "check" ELSE "for"
            /\ \E mid \in MidsAt(remaining), fault \in Faults :
                 IF fault = "mid" \/ mid = NullId \/ AlreadySeen(mid)
                   THEN \* lines 275-285 (or the handler of line 324)
                        /\ last' = Nothing
                        /\ UNCHANGED <<posts, processed_ids, consecutive_no_new_posts,
                                       new_posts_in_batch, boundary_seen>>
                   ELSE
                     \E e \in ElementsOf({mid}) :
                     LET filtering == start_date # NoDate \/ end_date # NoDate
                         day == IF filtering /\ fault # "range"
                                  THEN ResolvedDay(e) ELSE NoDate
                     IN
                     /\ processed_ids' = MarkProcessed(processed_ids, mid)
                     /\ IF ~IsDateInRange(e, fault) /\ start_date # NoDate
                          THEN \* lines 293-315
                               /\ IF fault # "block" /\ SetsStop(e)
                                    THEN /\ consecutive_no_new_posts' = max_no_new_attempts
                                         /\ boundary_seen' = TRUE
                                    ELSE UNCHANGED <<consecutive_no_new_posts,
                                                     boundary_seen>>
                               /\ last' = [new |-> TRUE, day |-> day, app |-> FALSE,
                                           xfail |-> FALSE]
                               /\ UNCHANGED <<posts, new_posts_in_batch>>
                          ELSE \* lines 317-323
                               LET post_data == ExtractPostData(e, fault) IN
                               /\ IF "id" \in DOMAIN post_data
                                    THEN /\ posts' = Collect(posts, post_data)
                                         /\ new_posts_in_batch' = new_posts_in_batch + 1
                                    ELSE UNCHANGED <<posts, new_posts_in_batch>>
                               /\ last' = [new |-> TRUE, day |-> day,
                                           app |-> "id" \in DOMAIN post_data,
                                           xfail |-> fault = "extract_id"]
                               /\ UNCHANGED <<consecutive_no_new_posts, boundary_seen>>
  /\ UNCHANGED <<configVars, pageVars, scrollTop, lo, channel_info, retval, result,
                 endReason, mainVars, auxVars>>

\* Lines 327-341: stop when enough posts were collected or the stop was
\* forced, then the at-top check.
CheckStop ==
  /\ pc = "check"
  /\ IF LimitReached \/ IdleExhausted
       THEN /\ Return(ExitReason)
            /\ last' = Nothing
       ELSE \E raises \in (IF PageMayRaise THEN BOOLEAN ELSE {FALSE}) :
              IF raises THEN Except
              ELSE IF AtTopScript(scrollTop)
                THEN /\ Return("top_reached")
                     /\ last' = Nothing
                ELSE /\ pc' = "scroll"
                     /\ last' = Nothing
                     /\ UNCHANGED <<retval, endReason>>
  /\ UNCHANGED <<configVars, pageVars, scrollTop, lo, channel_info, posts, processed_ids,
                 consecutive_no_new_posts, new_posts_in_batch, remaining, result,
                 boundary_seen, mainVars, auxVars>>

\* Lines 343-407: the scroll batch, the status read, the settle pause and the
\* idle tracking.
ScrollRound ==
  /\ pc = "scroll"
  /\ \E raises \in (IF PageMayRaise THEN BOOLEAN ELSE {FALSE}) :
       IF raises
         THEN /\ Except
              /\ UNCHANGED <<scrollTop, lo, consecutive_no_new_posts>>
         ELSE \E s0 \in EnvMove(scrollTop) :
              \E x \in ScrollBatch(scroll_batch_size,
                                   {[top |-> s0, lo |-> lo, changed |-> FALSE]}) :
              \E s1 \in EnvMove(Load(x).top) :
                /\ scrollTop' = s1
                /\ lo' = Load(x).lo
                /\ consecutive_no_new_posts' =
                     IdleUpdate(new_posts_in_batch, x.changed, consecutive_no_new_posts)
                /\ pc' = "loop"
                /\ last' = Nothing
                /\ UNCHANGED <<retval, endReason>>
  /\ UNCHANGED <<configVars, pageVars, channel_info, posts, processed_ids,
                 new_posts_in_batch, remaining, result, boundary_seen, mainVars, auxVars>>

\* parse_channel, lines 45-52.
ParseReturn ==
  /\ pc = "returned"
  /\ result' = [channel |-> channel_info, posts |-> retval]
  /\ pc' = "done"
  /\ last' = Nothing
  /\ UNCHANGED <<configVars, pageVars, scrollTop, lo, channel_info, posts, processed_ids,
                 consecutive_no_new_posts, new_posts_in_batch, remaining, retval,
                 endReason, boundary_seen, mainVars, auxVars>>

NoResult == [channel |-> NoInfo, posts |-> << >>]

\* Config defaults and inputs (config.py lines 31-37), and the page a run
\* starts on.
\* A date filter is tried with the largest limit only.
InitEngine(kinds) ==
  /\ post_limit \in 1..MaxLimit
  /\ start_date \in {NoDate, FilterDay}
  /\ end_date \in {NoDate, FilterDay}
  /\ (start_date # NoDate \/ end_date # NoDate) => post_limit = MaxLimit
  /\ pageKind \in kinds
  /\ hasColumn \in (IF pageKind = "history" THEN {TRUE} ELSE BOOLEAN)
  /\ lo \in (CASE pageKind = "arbitrary" -> {1}
               [] pageKind = "static" -> 1..NPosts
               [] pageKind = "history" -> 1..NPosts)
  /\ scrollTop = IF pageKind = "history" THEN BottomOf(lo) ELSE 0
  /\ pc = "navigate"
  /\ channel_info = NoInfo
  /\ posts = << >>
  /\ processed_ids = {}
  /\ consecutive_no_new_posts = 0
  /\ new_posts_in_batch = 0
  /\ remaining = 0
  /\ retval = << >>
  /\ result = NoResult
  /\ endReason = ""
  /\ boundary_seen = FALSE
  /\ last = Nothing

\* No login and no single call is under way.
AuthIdle ==
  /\ authPc = "off"
  /\ force_login = FALSE
  /\ marker = FALSE
  /\ last_query = "none"
  /\ gate = FALSE
  /\ polls = 0
  /\ session_saved = FALSE
  /\ browser_open = FALSE
FnIdle ==
  /\ fn_pc = "off"
  /\ fn_in = << >>
  /\ fn_out = << >>
AuxIdle == AuthIdle /\ FnIdle

MainIdle ==
  /\ channels = << >>
  /\ chan_idx = 0
  /\ attempted = << >>
  /\ exported = << >>
  /\ failed = {}
  /\ mainPc = "off"

Init == InitEngine({"arbitrary", "static", "history"}) /\ MainIdle /\ AuxIdle

Next ==
  \/ Navigate
  \/ GetChannelInfo
  \/ InitScroll
  \/ QueryElements
  \/ ProcessElement
  \/ CheckStop
  \/ ScrollRound
  \/ ParseReturn

Spec == Init /\ [][Next]_vars

\* Every step is a call that returns, so a run that can take a step takes it.
FairSpec == Spec /\ WF_vars(Next)

\* The runs on a page that renders what it is asked for and never raises.
InitCalm == InitEngine({"static", "history"}) /\ MainIdle /\ AuxIdle
SpecCalm == InitCalm /\ [][Next]_vars

\* ------------------------------------------------------------------ main
\* A channel entry is the set of keys it carries with a non-empty value.
EntryKeys == {"name", "username", "id", "url"}
ChannelLists == UNION {[1..n -> SUBSET EntryKeys] : n \in 0..MaxChannels}

\* _load_channels_from_json and _load_channels_from_csv (config.py lines
\* 202 and 222): an entry is kept when it has one of the four keys.
LoaderAccepts(entry) == entry \cap {"name", "username", "id", "url"} # {}

\* main.py line 92: the identifier main takes from an entry.
HasIdentifier(entry) == entry \cap {"name", "username", "id"} # {}

\* parse_channel as main sees it (channel_parser.py lines 39-52): it raises
\* when the navigation fails, else returns a result whose posts may be empty.
ParseOutcomes == {"raised", "empty", "posts"}

\* export_data as main sees it (data_exporter.py lines 31-59, 129-149): a
\* path, or RuntimeError when both JSON files fail.
ExportOutcomes == {"path", "raised"}

\* Faulty variant: an exception of one channel leaves the loop.
AfterChannelErrorAbort == "closing"

\* main.py lines 108-109: the handler inside the loop logs and the loop goes
\* on with the next entry.
AfterChannelError == "loop"

engineIdle == UNCHANGED <<engineVars, auxVars>>

\* main.py lines 64-67 and 112-120: login; when it raises, the outer handler
\* logs and the finally clause ends the run.
MainLogin ==
  /\ mainPc = "login"
  /\ \E ok \in BOOLEAN : mainPc' = IF ok THEN "select" ELSE "closed"
  /\ UNCHANGED <<channels, chan_idx, attempted, exported, failed>>
  /\ engineIdle

\* main.py lines 75-89: the channel list, and the early return without one.
MainSelect ==
  /\ mainPc = "select"
  /\ IF channels = << >>
       THEN mainPc' = "closed"
       ELSE mainPc' = "loop"
  /\ chan_idx' = 1
  /\ UNCHANGED <<channels, attempted, exported, failed>>
  /\ engineIdle

\* main.py lines 91-98 and 111: the next entry, skipped without identifier.
MainNextChannel ==
  /\ mainPc = "loop"
  /\ IF chan_idx > Len(channels)
       THEN /\ mainPc' = "closing"
            /\ UNCHANGED <<chan_idx, attempted>>
       ELSE IF ~HasIdentifier(channels[chan_idx])
         THEN /\ chan_idx' = chan_idx + 1
              /\ UNCHANGED <<mainPc, attempted>>
         ELSE /\ attempted' = Append(attempted, chan_idx)
              /\ mainPc' = "parse"
              /\ UNCHANGED chan_idx
  /\ UNCHANGED <<channels, exported, failed>>
  /\ engineIdle

\* main.py lines 100-109: parse_channel, then export when posts came back.
MainParseChannel ==
  /\ mainPc = "parse"
  /\ \E outcome \in ParseOutcomes :
       CASE outcome = "raised" ->
              /\ failed' = failed \cup {chan_idx}
              /\ mainPc' = AfterChannelError
              /\ chan_idx' = chan_idx + 1
         [] outcome = "empty" ->
              /\ mainPc' = "loop"
              /\ chan_idx' = chan_idx + 1
              /\ UNCHANGED failed
         [] outcome = "posts" ->
              /\ mainPc' = "export"
              /\ UNCHANGED <<chan_idx, failed>>
  /\ UNCHANGED <<channels, attempted, exported>>
  /\ engineIdle

MainExport ==
  /\ mainPc = "export"
  /\ \E outcome \in ExportOutcomes :
       IF outcome = "path"
         THEN /\ exported' = Append(exported, chan_idx)
              /\ mainPc' = "loop"
              /\ UNCHANGED failed
         ELSE /\ failed' = failed \cup {chan_idx}
              /\ mainPc' = AfterChannelError
              /\ UNCHANGED exported
  /\ chan_idx' = chan_idx + 1
  /\ UNCHANGED <<channels, attempted>>
  /\ engineIdle

\* main.py lines 114-120: the browser is closed.
MainClose ==
  /\ mainPc = "closing"
  /\ mainPc' = "closed"
  /\ UNCHANGED <<channels, chan_idx, attempted, exported, failed>>
  /\ engineIdle

InitMain ==
  /\ InitEngine({"static"})
  /\ post_limit = 1 /\ lo = NPosts /\ hasColumn
  /\ channels \in ChannelLists
  /\ chan_idx = 0
  /\ attempted = << >>
  /\ exported = << >>
  /\ failed = {}
  /\ mainPc = "login"
  /\ AuxIdle

NextMain ==
  \/ MainLogin
  \/ MainSelect
  \/ MainNextChannel
  \/ MainParseChannel
  \/ MainExport
  \/ MainClose

SpecMain == InitMain /\ [][NextMain]_vars

\* ------------------------------------------------- main with the parser
\* The batch loop with parse_channel run step by step on the shared page.
\* Faulty variant: the parse is started but not awaited.
ParseCallDetached == "loop"

\* main.py line 101: main awaits parse_channel.
ParseCallAwaited == "parsing"

\* The locals of parse_channel and _get_posts exist while the call runs.
EngineAtRest ==
  /\ pc = "idle"
  /\ channel_info = NoInfo
  /\ posts = << >>
  /\ processed_ids = {}
  /\ consecutive_no_new_posts = 0
  /\ new_posts_in_batch = 0
  /\ remaining = 0
  /\ retval = << >>
  /\ endReason = ""
  /\ boundary_seen = FALSE
  /\ last = Nothing

\* main.py lines 100-101: parse_channel is called for the entry.
BatchParseCall ==
  /\ mainPc = "parse"
  /\ mainPc' = ParseCallAwaited
  /\ chan_idx' = IF ParseCallAwaited = "parsing" THEN chan_idx ELSE chan_idx + 1
  /\ pc' = "navigate"
  /\ channel_info' = NoInfo
  /\ posts' = << >>
  /\ processed_ids' = {}
  /\ consecutive_no_new_posts' = 0
  /\ new_posts_in_batch' = 0
  /\ remaining' = 0
  /\ retval' = << >>
  /\ result' = NoResult
  /\ endReason' = ""
  /\ boundary_seen' = FALSE
  /\ last' = Nothing
  /\ UNCHANGED <<configVars, pageVars, scrollTop, lo, channels, attempted, exported,
                 failed, auxVars>>

\* main.py lines 101-109: parse_channel has returned or raised; the result
\* is exported when it has posts.
BatchParseReturn ==
  /\ mainPc = "parsing"
  /\ pc \in {"done", "raised"}
  /\ IF pc = "raised"
       THEN /\ failed' = failed \cup {chan_idx}
            /\ mainPc' = AfterChannelError
            /\ chan_idx' = chan_idx + 1
       ELSE IF result.posts = << >>
         THEN /\ mainPc' = "loop"
              /\ chan_idx' = chan_idx + 1
              /\ UNCHANGED failed
         ELSE /\ mainPc' = "export"
              /\ UNCHANGED <<chan_idx, failed>>
  /\ pc' = "idle"
  /\ channel_info' = NoInfo
  /\ posts' = << >>
  /\ processed_ids' = {}
  /\ consecutive_no_new_posts' = 0
  /\ new_posts_in_batch' = 0
  /\ remaining' = 0
  /\ retval' = << >>
  /\ endReason' = ""
  /\ boundary_seen' = FALSE
  /\ last' = Nothing
  /\ UNCHANGED <<configVars, pageVars, scrollTop, lo, result, channels, attempted,
                 exported, auxVars>>

\* The entries of a batch: with a name, with a url alone, with nothing.
BatchChannelLists == UNION {[1..n -> {{"name"}, {"url"}, {}}] : n \in 0..MaxChannels}

InitBatch ==
  /\ post_limit = 1
  /\ start_date = NoDate
  /\ end_date = NoDate
  /\ pageKind = "arbitrary"
  /\ hasColumn = TRUE
  /\ lo = 1
  /\ scrollTop = 0
  /\ EngineAtRest
  /\ result = NoResult
  /\ channels \in BatchChannelLists
  /\ chan_idx = 0
  /\ attempted = << >>
  /\ exported = << >>
  /\ failed = {}
  /\ mainPc = "login"
  /\ AuxIdle

NextBatch ==
  \/ MainLogin
  \/ MainSelect
  \/ MainNextChannel
  \/ BatchParseCall
  \/ Next
  \/ BatchParseReturn
  \/ MainExport
  \/ MainClose

SpecBatch == InitBatch /\ [][NextBatch]_vars

\* ------------------------------------------------------ _extract_post_data
\* The extractor with all its fields.  What the page holds for an element:
\* mid, the value of the id script of line 426 (NullId when it returns
\* null); dateEl, the element lines 439-441 find (.time before .date); ts,
\* its data-timestamp attribute ("huge" a value datetime.fromtimestamp
\* rejects, line 458); content, views, reactions, comments, media and
\* forwarded, what the queries of lines 463-582 find ("text" a views or
\* comments text without a number, "zero" a reactions count of 0).
ExtractElements ==
  [mid : {NullId, NPosts}, dateEl : {"none", "date", "time"}, ts : {"none", "own", "huge"},
   content : BOOLEAN, views : {"none", "text", "num"},
   reactions : {"none", "zero", "some"}, comments : {"none", "text", "num"},
   media : 0..1, forwarded : BOOLEAN]

\* The page call that raises during one extraction, if any: the id script
\* (line 426), the date element query (439-441), the date text read (445),
\* the timestamp read (448-455), or the first call of a later field.
ExtractFaults ==
  {"none", "id", "date_query", "date_text", "timestamp", "content", "views",
   "reactions", "comments", "media", "forwarded"}

\* Faulty variant: the handler keeps no id.
ExtractFallbackNoId == [error |-> TRUE]

\* Lines 585-587: the record of the outer handler.
ExtractFallback == [id |-> UnknownId, error |-> TRUE]

\* Faulty variant: one failing field drops every optional field.
FieldReadAborts(fault, names) == fault = "none"

\* Each field is read in a try of its own (lines 437-582): the field is read
\* unless one of its own page calls (names) is the one that raises.
FieldRead(fault, names) == fault \notin names

\* The keys _extract_post_data stores, in the order of the code.
ExtractKeys(el, fault) ==
  LET date_ok == el.dateEl # "none" /\ FieldRead(fault, {"date_query", "date_text"})
      ts_ok == date_ok /\ FieldRead(fault, {"timestamp"}) /\ el.ts # "none"
  IN {"id"}
     \cup (IF date_ok THEN {"date"} ELSE {})
     \cup (IF ts_ok THEN {"timestamp"} ELSE {})
     \cup (IF ts_ok /\ el.ts = "own" THEN {"datetime"} ELSE {})
     \cup (IF el.content /\ FieldRead(fault, {"content"}) THEN {"content"} ELSE {})
     \cup (IF el.views = "num" /\ FieldRead(fault, {"views"}) THEN {"views"} ELSE {})
     \cup (IF el.reactions = "some" /\ FieldRead(fault, {"reactions"})
            THEN {"reactions"} ELSE {})
     \cup (IF el.comments = "num" /\ FieldRead(fault, {"comments"})
            THEN {"comments"} ELSE {})
     \cup (IF el.media > 0 /\ FieldRead(fault, {"media"}) THEN {"media"} ELSE {})
     \cup (IF el.forwarded /\ FieldRead(fault, {"forwarded"})
            THEN {"forwarded_from"} ELSE {})

\* The value stored under a key: the identifier and the timestamp as the
\* engine's claims read them, the other fields by the page content they copy.
ExtractValue(el, k) ==
  CASE k = "id" -> el.mid
    [] k = "timestamp" -> DayOf(el.mid)
    [] k = "datetime" -> DayOf(el.mid)
    [] k = "media" -> el.media
    [] OTHER -> k

\* _extract_post_data (lines 420-587).
ExtractRecord(el, fault) ==
  IF fault = "id" THEN ExtractFallback
  ELSE [k \in ExtractKeys(el, fault) |-> ExtractValue(el, k)]

\* One call of _extract_post_data on an element.
ExtractCall ==
  /\ fn_pc = "extract"
  /\ fn_out' = ExtractRecord(fn_in.el, fn_in.fault)
  /\ fn_pc' = "returned"
  /\ UNCHANGED <<engineVars, mainVars, authVars, fn_in>>

\* Faulty variant: the id script removes the attribute it has read.
ElementAfterExtractConsumed(el) == [el EXCEPT !.mid = NullId]

\* The page scripts of lines 426-582 only read the element (getAttribute,
\* hasAttribute, textContent, querySelector, querySelectorAll, src): the
\* element a call leaves behind is the element it found.
ElementAfterExtract(el) == el

\* A second call of _extract_post_data on the same element, the page left
\* alone in between: the same page call raises, if any.  The record starts
\* empty again (line 422) and no state of the parser is read.
ExtractCallAgain ==
  /\ fn_pc = "returned"
  /\ fn_out' = [first |-> fn_out,
                second |-> ExtractRecord(ElementAfterExtract(fn_in.el), fn_in.fault)]
  /\ fn_pc' = "returned_twice"
  /\ UNCHANGED <<engineVars, mainVars, authVars, fn_in>>

\* No parse is under way: the configuration and the page are fixed.
EngineOff ==
  /\ post_limit = 1
  /\ start_date = NoDate
  /\ end_date = NoDate
  /\ pageKind = "static"
  /\ hasColumn = TRUE
  /\ lo = NPosts
  /\ scrollTop = 0
  /\ EngineAtRest
  /\ result = NoResult

\* The calls of the extractor on every element and every failing call.
InitExtract ==
  /\ EngineOff
  /\ MainIdle
  /\ AuthIdle
  /\ fn_pc = "extract"
  /\ fn_in \in [el : ExtractElements, fault : ExtractFaults]
  /\ fn_out = << >>

NextExtract == ExtractCall \/ ExtractCallAgain

SpecExtract == InitExtract /\ [][NextExtract]_vars

\* ------------------------------------------- the reactions of a post
\* A reaction container under the element (.reactions, .reaction-counter or
\* .like-button): the numbers parseInt reads from its .counter and
\* .reaction-count descendants (NaNCount where it reads none), and the first
\* integer of its text (NoInteger when the text has none).  An element holds
\* its containers in document order.
CounterLists == {<< >>, <<0>>, <<1>>, <<1, 2>>, <<NaNCount, 2>>}
ReactionContainers == [counters : CounterLists, text : {NoInteger, 0, 3}]
ContainerLists == UNION {[1..n -> ReactionContainers] : n \in 0..MaxContainers}

\* Lines 508-511: the reduce over the counters, NaN counted as 0.
RECURSIVE SumCounters(_)
SumCounters(counters) ==
  IF counters = << >> THEN 0
  ELSE (IF Head(counters) = NaNCount THEN 0 ELSE Head(counters))
         + SumCounters(Tail(counters))

\* Lines 506-517: what one container counts for.
ContainerCount(container) ==
  IF Len(container.counters) > 0 THEN SumCounters(container.counters)
  ELSE IF container.text = NoInteger THEN 0 ELSE container.text

\* The script of lines 499-519: querySelector gives the first container in
\* document order, or null; the count is taken from that container.  The
\* script's null is the empty sequence, a number is a sequence of one.
ReactionsScript(containers) ==
  IF containers = << >> THEN << >>
  ELSE <<ContainerCount(containers[1])>>

\* Lines 521-522: the field is stored when the count is truthy.
ReactionsField(containers) ==
  LET reactions_count == ReactionsScript(containers) IN
  IF reactions_count # << >> /\ reactions_count[1] # 0
    THEN [id |-> NPosts, reactions |-> reactions_count[1]]
    ELSE [id |-> NPosts]

\* The reactions block of one call of _extract_post_data.
ReactionsCall ==
  /\ fn_pc = "reactions"
  /\ fn_out' = ReactionsField(fn_in)
  /\ fn_pc' = "reacted"
  /\ UNCHANGED <<engineVars, mainVars, authVars, fn_in>>

InitReactions ==
  /\ EngineOff
  /\ MainIdle
  /\ AuthIdle
  /\ fn_pc = "reactions"
  /\ fn_in \in ContainerLists
  /\ fn_out = << >>

NextReactions == ReactionsCall

SpecReactions == InitReactions /\ [][NextReactions]_vars

\* ------------------------------------------------------ _is_date_in_range
\* One call of _is_date_in_range on an element, under a date range or none;
\* a page call inside it raises ("range") or none does.
DateRangeCall ==
  /\ fn_pc = "range"
  /\ fn_out' = [in_range |-> IsDateInRange(fn_in.el, fn_in.fault)]
  /\ fn_pc' = "ranged"
  /\ UNCHANGED <<engineVars, mainVars, authVars, fn_in>>

InitDateRange ==
  /\ post_limit = 1
  /\ start_date \in {NoDate, FilterDay}
  /\ end_date \in {NoDate, FilterDay}
  /\ pageKind = "static"
  /\ hasColumn = TRUE
  /\ lo = NPosts
  /\ scrollTop = 0
  /\ EngineAtRest
  /\ result = NoResult
  /\ MainIdle
  /\ AuthIdle
  /\ fn_pc = "range"
  /\ fn_in \in [el : ElementsOf(PostIds), fault : {"none", "range"}]
  /\ fn_out = << >>

NextDateRange == DateRangeCall

SpecDateRange == InitDateRange /\ [][NextDateRange]_vars

\* ---------------------------------------------------- _navigate_to_channel
\* A channel identifier is a string, modelled as the sequence of its pieces:
\* the marker "@", a scheme, a host with its slash, a channel name.
IdPieces == {"@", "https://", "http://", "t.me/", "chan"}
Identifiers == UNION {[1..n -> IdPieces] : n \in 0..MaxLen}

\* str.startswith for a prefix that is one piece.
StartsWith(s, piece) == Len(s) >= 1 /\ s[1] = piece

\* Lines 57-58: one leading "@" is dropped.
StripMarker(identifier) ==
  IF StartsWith(identifier, "@") THEN Tail(identifier) ELSE identifier

\* Line 64: the location of the web application with the channel anchor.
BaseLocation == <<"https://", "web.telegram.org/k/#@">>

\* Lines 61-64: the URL for a cleaned identifier.
ChannelUrl(identifier) ==
  IF StartsWith(identifier, "https://") THEN identifier
  ELSE BaseLocation \o identifier

\* Lines 68-81: goto raises (timeout), or the title is missing after the
\* pause, or the channel page is there; the handler logs and re-raises.
NavigateOutcomes == {"arrived", "goto_raised", "no_title"}

\* One call of _navigate_to_channel: the one goto of line 69 and how the
\* call ends.
NavigateCall ==
  /\ fn_pc = "navigate"
  /\ \E outcome \in NavigateOutcomes :
       fn_out' = [requests |-> <<ChannelUrl(StripMarker(fn_in))>>,
                  raised |-> outcome # "arrived"]
  /\ fn_pc' = "navigated"
  /\ UNCHANGED <<engineVars, mainVars, authVars, fn_in>>

InitNavigate ==
  /\ EngineOff
  /\ MainIdle
  /\ AuthIdle
  /\ fn_pc = "navigate"
  /\ fn_in \in Identifiers
  /\ fn_out = << >>

NextNavigate == NavigateCall

SpecNavigate == InitNavigate /\ [][NextNavigate]_vars

\* --------------------------------------------- the scroll batch and Config
\* What the performance section of the configuration file holds under
\* batch_size: nothing, or a number.
BatchSizeEntries == {<< >>} \cup {<<n>> : n \in 0..MaxBatch}

\* Config.__init__ and _load_config_file (config.py lines 41 and 96-101):
\* Config.batch_size is the file's value, or the default without one.
ConfigBatchSize(entry) == IF entry = << >> THEN DefaultBatchSize ELSE entry[1]

\* The tick loop of lines 345-373 on a page state, counting the scroll
\* scripts it evaluates.
RECURSIVE TickLoop(_, _)
TickLoop(n, x) ==
  IF n = 0 THEN x
  ELSE TickLoop(n - 1, [ScrollTick(x) EXCEPT !.ticks = @ + 1])

\* Lines 237 and 345: the number of ticks of a round is the local
\* scroll_batch_size; _get_posts reads config.limit and config.start_date
\* only.
TicksPerRound(config_batch_size) == scroll_batch_size

\* One scroll batch of _get_posts under a loaded configuration.
ScrollBatchCall ==
  /\ fn_pc = "batch"
  /\ fn_out' = TickLoop(TicksPerRound(ConfigBatchSize(fn_in.entry)),
                        [top |-> fn_in.top, lo |-> lo, changed |-> FALSE, ticks |-> 0])
  /\ fn_pc' = "scrolled"
  /\ UNCHANGED <<engineVars, mainVars, authVars, fn_in>>

InitScrollBatch ==
  /\ EngineOff
  /\ MainIdle
  /\ AuthIdle
  /\ fn_pc = "batch"
  /\ fn_in \in [entry : BatchSizeEntries,
                 top : {k * ViewportPx : k \in 0..MaxOffsetSteps}]
  /\ fn_out = << >>

NextScrollBatch == ScrollBatchCall

SpecScrollBatch == InitScrollBatch /\ [][NextScrollBatch]_vars

\* ------------------------------------------- Config and the command line
\* A setting the file or the command line may carry is the empty sequence
\* when it is not given and a sequence of one value when it is.  A directory
\* is the sequence of its path components.
AbsPath(dir) == <<"cwd">> \o dir

FileSettings ==
  [limit : {<< >>, <<5>>}, format : {<< >>, <<"json">>},
   directory : {<< >>, <<<<"data">>>>}, headless : {<< >>, <<TRUE>>}]
CliOptions ==
  [limit : {<< >>, <<0>>, <<7>>}, format : {<< >>, <<"csv">>},
   output : {<< >>, <<<<"out2">>>>}, headless : BOOLEAN]

\* Config.__init__ and _load_config_file (config.py lines 27-33, 62-111):
\* the defaults, replaced by what the file gives.
LoadConfig(file) ==
  [limit |-> IF file.limit = << >> THEN DefaultLimit ELSE file.limit[1],
   export_format |-> IF file.format = << >> THEN "xlsx" ELSE file.format[1],
   output_dir |-> IF file.directory = << >> THEN <<"package", "output">>
                  ELSE AbsPath(file.directory[1]),
   headless |-> IF file.headless = << >> THEN FALSE ELSE file.headless[1]]

\* argparse in main (main.py lines 42-53): an option that was not passed
\* has its default; --headless is a store_true flag.
ParseArgs(cli) ==
  [limit |-> IF cli.limit = << >> THEN ArgDefaultLimit ELSE cli.limit[1],
   format |-> IF cli.format = << >> THEN "xlsx" ELSE cli.format[1],
   output |-> IF cli.output = << >> THEN <<"output">> ELSE cli.output[1],
   headless |-> cli.headless]

\* Config.update_from_args (config.py lines 117-137): headless is copied,
\* the other settings are replaced by every truthy argument.
UpdateFromArgs(config, args) ==
  [limit |-> IF args.limit # 0 THEN args.limit ELSE config.limit,
   export_format |-> IF args.format # "" THEN args.format ELSE config.export_format,
   output_dir |-> IF args.output # << >> THEN AbsPath(args.output)
                  ELSE config.output_dir,
   headless |-> args.headless]

\* main.py lines 55-57: the configuration main works with.
ConfigureCall ==
  /\ fn_pc = "configure"
  /\ fn_out' = UpdateFromArgs(LoadConfig(fn_in.file), ParseArgs(fn_in.cli))
  /\ fn_pc' = "configured"
  /\ UNCHANGED <<engineVars, mainVars, authVars, fn_in>>

InitConfigure ==
  /\ EngineOff
  /\ MainIdle
  /\ AuthIdle
  /\ fn_pc = "configure"
  /\ fn_in \in [file : FileSettings, cli : CliOptions]
  /\ fn_out = << >>

NextConfigure == ConfigureCall

SpecConfigure == InitConfigure /\ [][NextConfigure]_vars

\* ------------------------------------------------------ TelegramAuth.login
\* marker: the page shows the chat list (.chat-list or div[data-peer-id]).
\* last_query: what the marker query of the last _is_logged_in call did.
\* gate: what that call returned.  polls: the iteration of a waiting loop.
AuthRest == UNCHANGED <<engineVars, mainVars, fnVars>>

\* Faulty variant: a failing query counts as logged in.
IsLoggedInLoose(query) == query # "none"

\* _is_logged_in (lines 235-242) by the outcome of the marker query: an
\* element, nothing, or an exception.
IsLoggedIn(query) == query = "element"

GateSites == {"gate_login", "gate_perform", "gate_poll", "gate_2fa"}
AfterGate(site) ==
  CASE site = "gate_login" -> "after_gate_login"
    [] site = "gate_perform" -> "after_gate_perform"
    [] site = "gate_poll" -> "after_gate_poll"
    [] site = "gate_2fa" -> "after_gate_2fa"
AfterGateSites == {AfterGate(site) : site \in GateSites}

\* One call of _is_logged_in (lines 60, 103, 197, 226).
IsLoggedInCall ==
  /\ authPc \in GateSites
  /\ \E query \in {IF marker THEN "element" ELSE "none", "raised"} :
       /\ last_query' = query
       /\ gate' = IsLoggedIn(query)
  /\ authPc' = AfterGate(authPc)
  /\ UNCHANGED <<force_login, marker, polls, session_saved, browser_open>>
  /\ AuthRest

\* Lines 45-50: the browser is launched, or launch raises.
AuthLaunch ==
  /\ authPc = "launch"
  /\ \E ok \in BOOLEAN :
       /\ browser_open' = ok
       /\ authPc' = IF ok THEN "goto" ELSE "raised"
  /\ UNCHANGED <<force_login, marker, last_query, gate, polls, session_saved>>
  /\ AuthRest

\* Lines 52-60: the page is opened and loaded (either may raise); the gate
\* is asked unless force_login is set.
AuthGoto ==
  /\ authPc = "goto"
  /\ \E ok \in BOOLEAN :
       authPc' = IF ~ok THEN "raised"
                 ELSE IF force_login THEN "perform" ELSE "gate_login"
  /\ UNCHANGED <<force_login, marker, last_query, gate, polls, session_saved,
                 browser_open>>
  /\ AuthRest

\* Lines 60-65.
AuthAfterGateLogin ==
  /\ authPc = "after_gate_login"
  /\ authPc' = IF gate THEN "returned" ELSE "perform"
  /\ UNCHANGED <<force_login, marker, last_query, gate, polls, session_saved,
                 browser_open>>
  /\ AuthRest

\* _perform_login, lines 99-103: the page is loaded again, then the gate.
AuthPerform ==
  /\ authPc = "perform"
  /\ \E ok \in BOOLEAN : authPc' = IF ok THEN "gate_perform" ELSE "raised"
  /\ UNCHANGED <<force_login, marker, last_query, gate, polls, session_saved,
                 browser_open>>
  /\ AuthRest

\* Lines 103-105.
AuthAfterGatePerform ==
  /\ authPc = "after_gate_perform"
  /\ authPc' = IF gate THEN "returned" ELSE "phone"
  /\ UNCHANGED <<force_login, marker, last_query, gate, polls, session_saved,
                 browser_open>>
  /\ AuthRest

\* Lines 107-153: the phone button (its failure is swallowed), the phone
\* number entry and Next (a failure raises), then the captcha query.
AuthPhone ==
  /\ authPc = "phone"
  /\ \E step \in {"raised", "captcha", "code"} : authPc' = step
  /\ polls' = 0
  /\ UNCHANGED <<force_login, marker, last_query, gate, session_saved, browser_open>>
  /\ AuthRest

\* Lines 157-165: up to CaptchaPolls queries for the captcha image.
AuthCaptcha ==
  /\ authPc = "captcha"
  /\ IF polls >= CaptchaPolls
       THEN /\ authPc' = "raised"
            /\ UNCHANGED polls
       ELSE \E seen \in {"gone", "shown", "raised"} :
              CASE seen = "gone" -> authPc' = "code" /\ polls' = 0
                [] seen = "shown" -> authPc' = "captcha" /\ polls' = polls + 1
                [] seen = "raised" -> authPc' = "raised" /\ UNCHANGED polls
  /\ UNCHANGED <<force_login, marker, last_query, gate, session_saved, browser_open>>
  /\ AuthRest

\* Lines 168-193: the code input is awaited; without it a password input
\* leads to _handle_2fa, else the wait's exception is raised; the code is
\* typed, and a password input then leads to _handle_2fa.  The account may
\* become authenticated from here on.
AuthCode ==
  /\ authPc = "code"
  /\ \E step \in {"raised", "twofa", "gate_poll"} : authPc' = step
  /\ polls' = 0
  /\ UNCHANGED <<force_login, marker, last_query, gate, session_saved, browser_open>>
  /\ AuthRest

\* _handle_2fa, lines 214-222: the password is typed and submitted.
AuthTwoFa ==
  /\ authPc = "twofa"
  /\ \E ok \in BOOLEAN : authPc' = IF ok THEN "gate_2fa" ELSE "raised"
  /\ polls' = 0
  /\ UNCHANGED <<force_login, marker, last_query, gate, session_saved, browser_open>>
  /\ AuthRest

\* _save_session (lines 345-356) never raises; the file may fail to be written.
SaveSession(saved) == {TRUE, saved}

\* Faulty variant: the wait for the confirmation has no end.
PollsExhaustedNever(n) == FALSE

\* Lines 196 and 225: `for _ in range(30)`, then the raise of lines 204, 233.
PollsExhausted(n) == n >= LoginPolls

\* Lines 196-204 and 225-233: a confirmed login saves the session and
\* returns; otherwise one second passes, in which the page may become
\* authenticated, and after LoginPolls rounds the login raises.
AuthAfterGatePoll ==
  /\ authPc \in {"after_gate_poll", "after_gate_2fa"}
  /\ IF gate
       THEN /\ session_saved' \in SaveSession(session_saved)
            /\ authPc' = "returned"
            /\ UNCHANGED <<polls, marker>>
       ELSE /\ polls' = polls + 1
            /\ marker' \in {marker, TRUE}
            /\ authPc' = IF PollsExhausted(polls + 1) THEN "raised"
                          ELSE IF authPc = "after_gate_poll" THEN "gate_poll"
                          ELSE "gate_2fa"
            /\ UNCHANGED session_saved
  /\ UNCHANGED <<force_login, last_query, gate, browser_open>>
  /\ AuthRest

InitAuth ==
  /\ EngineOff
  /\ MainIdle
  /\ FnIdle
  /\ authPc = "launch"
  /\ force_login \in BOOLEAN
  /\ marker \in BOOLEAN
  /\ last_query = "none"
  /\ gate = FALSE
  /\ polls = 0
  /\ session_saved \in BOOLEAN
  /\ browser_open = FALSE

NextAuth ==
  \/ AuthLaunch
  \/ AuthGoto
  \/ IsLoggedInCall
  \/ AuthAfterGateLogin
  \/ AuthPerform
  \/ AuthAfterGatePerform
  \/ AuthPhone
  \/ AuthCaptcha
  \/ AuthCode
  \/ AuthTwoFa
  \/ AuthAfterGatePoll

SpecAuth == InitAuth /\ [][NextAuth]_vars

\* ------------------------------------------------- main with the login
\* main's session: TelegramAuth.login run step by step, the work between
\* the login and the finally clause as one step, and the finally clause.
\* main.py line 67: the name browser is bound when login has returned.
BrowserBound == authPc = "returned"

\* main.py lines 67 and 112-113: login has returned, or it has raised and
\* the outer handler has logged the error.
SessionLoginDone ==
  /\ mainPc = "login"
  /\ authPc \in {"returned", "raised"}
  /\ mainPc' = IF authPc = "returned" THEN "body" ELSE "closing"
  /\ UNCHANGED <<channels, chan_idx, attempted, exported, failed>>
  /\ engineIdle

\* main.py lines 69-111: the channel list is loaded and the channels are
\* parsed; the block ends normally, or by the early return of lines 84-87
\* after closing the browser, or by an exception the outer handler logs.
SessionBody ==
  /\ mainPc = "body"
  /\ \E how \in {"completed", "no_channels", "raised"} :
       browser_open' = IF how = "no_channels" THEN FALSE ELSE browser_open
  /\ mainPc' = "closing"
  /\ UNCHANGED <<channels, chan_idx, attempted, exported, failed>>
  /\ UNCHANGED <<engineVars, fnVars, authPc, force_login, marker, last_query, gate,
                 polls, session_saved>>

\* main.py lines 114-120: browser.close() in a try of its own; when the
\* name browser was never bound the NameError is swallowed and nothing is
\* closed.
SessionFinally ==
  /\ mainPc = "closing"
  /\ browser_open' = IF BrowserBound THEN FALSE ELSE browser_open
  /\ mainPc' = "closed"
  /\ UNCHANGED <<channels, chan_idx, attempted, exported, failed>>
  /\ UNCHANGED <<engineVars, fnVars, authPc, force_login, marker, last_query, gate,
                 polls, session_saved>>

\* main.py line 67 calls login() without force_login.
InitSession ==
  /\ EngineOff
  /\ FnIdle
  /\ channels = << >>
  /\ chan_idx = 0
  /\ attempted = << >>
  /\ exported = << >>
  /\ failed = {}
  /\ mainPc = "login"
  /\ authPc = "launch"
  /\ force_login = FALSE
  /\ marker \in BOOLEAN
  /\ last_query = "none"
  /\ gate = FALSE
  /\ polls = 0
  /\ session_saved \in BOOLEAN
  /\ browser_open = FALSE

NextSession ==
  \/ NextAuth
  \/ SessionLoginDone
  \/ SessionBody
  \/ SessionFinally

SpecSession == InitSession /\ [][NextSession]_vars

\* ------------------------------------------------------- DataExporter
\* Python values as _flatten_post tells them apart (lines 262-284): a scalar
\* (str, int, float, bool, None), a dict, a list.  A string is a sequence of
\* pieces, so that joining keys with "." and items with "; " is a
\* concatenation.
Scalar(x) == [t |-> "scalar", v |-> <<x>>]
None == [t |-> "none", v |-> << >>]
Str(pieces) == [t |-> "scalar", v |-> pieces]
List(items) == [t |-> "list", v |-> items]
Dict(d) == [t |-> "dict", v |-> d]

\* The keys of the records of this program (lines 434-580 and 548-563 of
\* channel_parser.py), in a fixed insertion order; none contains a dot, so
\* the order does not change the result.
KeyOrder == <<"id", "content", "media", "type", "url">>

\* str(item) of a list item (lines 264 and 275): a string is itself, a dict
\* its repr.
StrOf(item) == IF item.t = "scalar" THEN item.v ELSE <<"repr">>

\* The items a list keeps: line 264 drops the falsy items of media (None, an
\* empty string, an empty dict), line 275 drops None.
Kept(key, item) ==
  IF key = "media" THEN item.t # "none" /\ item.v # << >> ELSE item.t # "none"

\* "; ".join(...) of lines 264 and 276.
RECURSIVE JoinItems(_)
JoinItems(items) ==
  IF items = << >> THEN << >>
  ELSE IF Len(items) = 1 THEN StrOf(items[1])
  ELSE StrOf(items[1]) \o <<"; ">> \o JoinItems(Tail(items))

\* Faulty variant: the prefix is dropped.
FullKeyBare(prefix, key) == <<key>>

\* Line 259: the key with its prefix.
FullKey(prefix, key) == IF prefix # << >> THEN prefix \o <<".">> \o <<key>> ELSE <<key>>

\* flat_post.update and flat_post[k] = v: the later entry wins.
Updated(flat, more) == more @@ flat
EmptyDict == [k \in {} |-> << >>]

\* _flatten_post (lines 244-286): the entries of post are handled in
\* insertion order, from the i-th key on.
RECURSIVE FlattenFrom(_, _, _, _)
FlattenFrom(post, prefix, i, flat) ==
  IF i > Len(KeyOrder) THEN flat
  ELSE IF KeyOrder[i] \notin DOMAIN post THEN FlattenFrom(post, prefix, i + 1, flat)
  ELSE LET key == KeyOrder[i]
           value == post[key]
           full_key == FullKey(prefix, key)
           entry == CASE value.t = "list" ->
                           (full_key :> Str(JoinItems(SelectSeq(value.v,
                                                       LAMBDA item : Kept(key, item)))))
                      [] value.t \in {"scalar", "none"} -> (full_key :> value)
                      [] value.t = "dict" -> FlattenFrom(value.v, full_key, 1, EmptyDict)
       IN FlattenFrom(post, prefix, i + 1, Updated(flat, entry))
FlattenPost(post) == FlattenFrom(post, << >>, 1, EmptyDict)

\* The records _flatten_post is given: an id, and optionally a content (a
\* scalar, None, a list or a dict nested up to MaxDepth) and a media list of
\* up to MaxItems items.
ListItems == {Scalar("u"), Dict([type |-> Scalar("photo")])}
ItemLists == UNION {[1..n -> ListItems] : n \in 0..MaxItems}
InnerLeaves == {Scalar("x"), List(<<Scalar("u"), Dict([type |-> Scalar("photo")])>>)}
DictsOver(vals) == {Dict(d) : d \in UNION {[S -> vals] : S \in SUBSET {"type", "url"}}}
RECURSIVE ValuesAt(_)
ValuesAt(depth) ==
  IF depth = 0 THEN InnerLeaves ELSE InnerLeaves \cup DictsOver(ValuesAt(depth - 1))
FlattenInputs ==
  LET ids == [id : {Scalar("1")}]
      contents == {Scalar("x"), None} \cup {List(l) : l \in ItemLists}
                    \cup DictsOver(ValuesAt(MaxDepth - 1))
      medias == {List(l) : l \in ItemLists}
  IN ids \cup {r @@ ("content" :> c) : r \in ids, c \in contents}
         \cup {r @@ ("media" :> m) : r \in ids, m \in medias}
         \cup {r @@ ("content" :> c) @@ ("media" :> m) :
                  r \in ids, c \in contents, m \in medias}

\* One call of _flatten_post.
FlattenCall ==
  /\ fn_pc = "flatten"
  /\ fn_out' = FlattenPost(fn_in)
  /\ fn_pc' = "returned"
  /\ UNCHANGED <<engineVars, mainVars, authVars, fn_in>>

InitFlatten ==
  /\ EngineOff
  /\ MainIdle
  /\ AuthIdle
  /\ fn_pc = "flatten"
  /\ fn_in \in FlattenInputs
  /\ fn_out = << >>

NextFlatten == FlattenCall

SpecFlatten == InitFlatten /\ [][NextFlatten]_vars

\* The posts handed to the exporter: records of the extractor with
\* different optional fields, up to MaxRows of them.
PostShapes ==
  {[id |-> Scalar("1")],
   [id |-> Scalar("1"), content |-> Scalar("x")],
   [id |-> Scalar("1"), media |-> List(<<Dict([type |-> Scalar("photo")])>>)]}
PostLists == UNION {[1..n -> PostShapes] : n \in 0..MaxRows}

\* The file operations that fail during one export.
IoFaults == SUBSET {"csv_open", "info_write", "xlsx_write", "json_write", "fallback_write"}

\* Config.export_format as export_data finds it (line 49): one of the three
\* formats, or another string.
ExportFormats == {"json", "csv", "xlsx", "xml"}

\* Faulty variant: no second file is tried.
ExportJsonNoFallback(io) ==
  IF "json_write" \notin io THEN [kind |-> "json", rows |-> 0]
  ELSE [kind |-> "raised", rows |-> 0]

\* _export_json (lines 129-149): the named file, else the fallback file, else
\* RuntimeError.
ExportJson(io) ==
  IF "json_write" \notin io THEN [kind |-> "json", rows |-> 0]
  ELSE IF "fallback_write" \notin io THEN [kind |-> "fallback_json", rows |-> 0]
  ELSE [kind |-> "raised", rows |-> 0]

\* csv.DictWriter with the default extrasaction (lines 172-175): a row with
\* a key outside fieldnames raises ValueError.
RowAccepted(fieldnames, row) == DOMAIN row \subseteq fieldnames

\* writer.writerows (line 175): the rows written before one is refused.
RECURSIVE RowsWritten(_, _, _)
RowsWritten(fieldnames, flat_posts, i) ==
  IF i > Len(flat_posts) \/ ~RowAccepted(fieldnames, flat_posts[i]) THEN i - 1
  ELSE RowsWritten(fieldnames, flat_posts, i + 1)

\* _export_csv (lines 151-192).
ExportCsv(post_list, io) ==
  IF post_list = << >> THEN ExportJson(io)
  ELSE LET flat_posts == [i \in DOMAIN post_list |-> FlattenPost(post_list[i])]
           fieldnames == DOMAIN flat_posts[1]
           rows == RowsWritten(fieldnames, flat_posts, 1)
       IN IF "csv_open" \in io \/ rows < Len(post_list) \/ "info_write" \in io
            THEN ExportJson(io)
            ELSE [kind |-> "csv", rows |-> rows]

\* _export_xlsx (lines 194-242): without posts the JSON export; the frame
\* takes rows of any keys; when the workbook cannot be written the handler
\* falls back to the JSON export.
ExportXlsx(post_list, io) ==
  IF post_list = << >> THEN ExportJson(io)
  ELSE IF "xlsx_write" \in io THEN ExportJson(io)
  ELSE [kind |-> "xlsx", rows |-> Len(post_list)]

\* export_data (lines 31-59): the writer of the format, the JSON writer for
\* an unknown format.
ExportData(format, post_list, io) ==
  CASE format = "csv" -> ExportCsv(post_list, io)
    [] format = "xlsx" -> ExportXlsx(post_list, io)
    [] OTHER -> ExportJson(io)

\* One call of export_data.
ExportCall ==
  /\ fn_pc = "export"
  /\ fn_out' = ExportData(fn_in.format, fn_in.posts, fn_in.io)
  /\ fn_pc' = "returned"
  /\ UNCHANGED <<engineVars, mainVars, authVars, fn_in>>

InitExport ==
  /\ EngineOff
  /\ MainIdle
  /\ AuthIdle
  /\ fn_pc = "export"
  /\ fn_in \in [format : ExportFormats, posts : PostLists, io : IoFaults]
  /\ fn_out = << >>

NextExport == ExportCall

SpecExport == InitExport /\ [][NextExport]_vars

\* ================================================================ claims
Returned == pc \in {"returned", "done"}
NoFilter == start_date = NoDate /\ end_date = NoDate
Ids(recs) == [i \in DOMAIN recs |-> recs[i].id]
Distinct(recs) == \A i, j \in DOMAIN recs : i < j => recs[i].id # recs[j].id
RenderedIds == [i \in 1..(NPosts - lo + 1) |-> lo + i - 1]

\* C1: in every state of a _get_posts run and in the returned list, no two
\* collected records carry the same identifier.
C1_UniqueIds == Distinct(posts) /\ Distinct(retval)

\* C2: the number of collected records never exceeds the limit, in every
\* intermediate state, in the returned list and in the parse result.
C2_LimitRespected ==
  /\ Len(posts) <= post_limit
  /\ Len(retval) <= post_limit
  /\ Len(result.posts) <= post_limit
\* The limit is reached while elements of the round are still to be handled.
C2_Witness == pc = "for" /\ remaining >= 1 /\ Len(posts) = post_limit

\* C3: every run terminates; a round that adds no record and leaves the
\* scroll offset unchanged (or finds no element) raises the idle counter by
\* one, the counter never passes max_no_new_attempts, and the loop is left
\* at the first loop test that finds the counter there.
IdleRoundStep ==
  \/ pc = "loop" /\ pc' = "loop"
  \/ pc = "scroll" /\ pc' = "loop" /\ new_posts_in_batch = 0 /\ scrollTop' = scrollTop
C3_Terminates ==
  /\ <>(pc \in {"done", "raised"})
  /\ [][IdleRoundStep =>
          consecutive_no_new_posts' = consecutive_no_new_posts + 1]_vars
  /\ [][(pc \in {"loop", "check"} /\ IdleExhausted) => pc' = "returned"]_vars
  /\ [](consecutive_no_new_posts <= max_no_new_attempts)
  /\ [](Returned => endReason \in {"limit_reached", "top_reached", "idle_exhausted",
                                   "date_boundary_reached", "error"})
\* A run that ended because five rounds in a row brought nothing.
C3_Witness ==
  /\ pc = "done"
  /\ endReason = "idle_exhausted"
  /\ consecutive_no_new_posts = max_no_new_attempts
  /\ Len(posts) = 0

\* C4: when a page call of the scroll loop raises, _get_posts returns exactly
\* the records collected so far, and parse_channel returns a result that
\* holds them.
C4_PartialResultOnFailure ==
  /\ [][(endReason = "" /\ endReason' = "error") =>
          (pc' = "returned" /\ retval' = posts)]_vars
  /\ [](endReason = "error" => pc \in {"returned", "done"})
  /\ [](pc = "done" => result = [channel |-> channel_info, posts |-> retval])
\* A failed run that had collected records, returned by parse_channel.
C4_Witness ==
  /\ pc = "done"
  /\ endReason = "error"
  /\ Len(result.posts) >= 1
  /\ result.posts = posts

\* C5: in a batch run every entry with an identifier is attempted exactly
\* once, in list order, whatever parse_channel and the export of the entries
\* before it did.
RECURSIVE WithIdentifier(_)
WithIdentifier(n) ==
  IF n = 0 THEN << >>
  ELSE IF HasIdentifier(channels[n]) THEN Append(WithIdentifier(n - 1), n)
  ELSE WithIdentifier(n - 1)
C5_EveryChannelAttempted ==
  /\ mainPc \in {"select", "loop"} =>
       attempted = WithIdentifier(IF chan_idx = 0 THEN 0 ELSE chan_idx - 1)
  /\ mainPc \in {"parse", "export"} => attempted = WithIdentifier(chan_idx)
  /\ (mainPc \in {"closing", "closed"} /\ chan_idx > 0) =>
       attempted = WithIdentifier(Len(channels))
\* A batch that went on to a later channel after an earlier one failed.
C5_Witness ==
  /\ mainPc = "closed"
  /\ Len(attempted) >= 2
  /\ \E k \in failed : k < attempted[Len(attempted)]

\* C6: with a start date, a new element whose resolved date is before the
\* start is not appended and sets the stop condition.
C6_OldElementStops ==
  (last.new /\ start_date # NoDate /\ last.day # NoDate /\ last.day < start_date)
    => (~last.app /\ IdleExhausted)

\* C7: with an end date, a new element whose resolved date is after the end
\* is never appended.
C7_LateElementSkipped ==
  (last.new /\ end_date # NoDate /\ last.day # NoDate /\ last.day > end_date)
    => ~last.app

\* C8: the returned sequence is newest first: of two records that carry a
\* timestamp, the earlier in the sequence has the later or equal timestamp.
C8_NewestFirst ==
  Returned =>
    \A p, q \in DOMAIN retval :
      (p < q /\ "timestamp" \in DOMAIN retval[p] /\ "timestamp" \in DOMAIN retval[q])
        => retval[p].timestamp >= retval[q].timestamp

\* C9: on a page that renders older posts at every scroll until the top,
\* with at least limit posts and no date filter, exactly limit records are
\* returned and the run ends by limit or top.
C9_ExactlyLimit ==
  (Returned /\ pageKind = "history" /\ NoFilter /\ NPosts >= post_limit)
    => (Len(retval) = post_limit /\ endReason \in {"limit_reached", "top_reached"})
\* The first round rendered the newest post alone and scrolling brought more.
C9_Witness ==
  /\ pc = "done"
  /\ pageKind = "history"
  /\ NoFilter
  /\ Len(retval) >= 2
  /\ Len(retval) = post_limit
  /\ retval[1].id = NPosts

C11_NavigationFailureStops ==
  /\ [](endReason = "navigation_failed" =>
         /\ pc = "raised"
         /\ channel_info = NoInfo
         /\ posts = << >>
         /\ processed_ids = {}
         /\ result = NoResult)
  /\ [][(mainPc = "parsing" /\ pc = "raised" /\ mainPc' # mainPc) =>
          (chan_idx \in failed' /\ exported' = exported /\ mainPc' # "export")]_vars
  /\ [](\A i \in DOMAIN exported : exported[i] \notin failed)
\* The navigation to the second channel failed after the first was exported.
C11_Witness ==
  /\ mainPc = "parsing"
  /\ endReason = "navigation_failed"
  /\ Len(exported) >= 1

\* C12: when the metadata reader cannot read the title, the info is the
\* fallback, _get_posts is not run and the result has no posts.
C12_UnreadableTitleSkipsPosts ==
  (pc = "done" /\ channel_info.title # "title") =>
    (channel_info = InfoFallback /\ endReason = "" /\ result.posts = << >>)

\* C13: every collected record has a resolved identifier: a record whose
\* identifier is null is discarded before insertion.
C13_ResolvedIds ==
  /\ \A i \in DOMAIN posts : posts[i].id # NullId
  /\ \A i \in DOMAIN retval : retval[i].id # NullId

\* C14: when the extractor fails on an element whose identifier the engine
\* had read, the placeholder is appended and counted as a new post of the
\* round; collected records keep their positions up to the return, and the
\* placeholder counts toward the limit.
Placeholder == [id |-> UnknownId, error |-> TRUE]
C14_PlaceholderAppended ==
  /\ [][last'.xfail =>
          /\ posts' = Append(posts, Placeholder)
          /\ new_posts_in_batch' = new_posts_in_batch + 1]_vars
  /\ [][(pc \in {"loop", "for", "check", "scroll"} /\ posts' # posts) =>
          (Len(posts') = Len(posts) + 1 /\ SubSeq(posts', 1, Len(posts)) = posts)]_vars
  /\ [](Returned => retval = posts)
  /\ [](Len(posts) <= post_limit)
  /\ []((pc = "done" /\ Len(retval) >= post_limit) => endReason = "limit_reached")
\* A run that reached its limit with a placeholder in the middle.
C14_Witness ==
  /\ pc = "done"
  /\ endReason = "limit_reached"
  /\ Len(retval) = 2
  /\ retval[1] = Placeholder
  /\ retval[2].id \in PostIds

\* C15: when the identifier read raises, the extractor returns the record
\* with exactly the fields id = "unknown" and error.
C15_FallbackRecord ==
  (fn_pc = "returned" /\ fn_in.fault = "id") =>
    (DOMAIN fn_out = {"id", "error"} /\ fn_out.id = UnknownId /\ fn_out.error)
\* The identifier read failed on an element that has every other field.
C15_Witness ==
  /\ fn_pc = "returned"
  /\ fn_in.fault = "id"
  /\ fn_in.el.content /\ fn_in.el.dateEl = "time" /\ fn_in.el.media > 0
  /\ fn_out.id = UnknownId

\* The fields each optional block of the extractor stores, by the failing
\* call inside it.
BlockOf(fault) ==
  CASE fault \in {"date_query", "date_text", "timestamp"} -> {"date", "timestamp", "datetime"}
    [] fault = "forwarded" -> {"forwarded_from"}
    [] OTHER -> {fault}
OptionalFault == fn_in.fault \notin {"none", "id"}
SameOutside(rec, ref, block) ==
  \A k \in (DOMAIN rec \cup DOMAIN ref) \ block :
    k \in DOMAIN rec /\ k \in DOMAIN ref /\ rec[k] = ref[k]

\* C16 as stated: a failure while reading one optional field leaves that
\* field absent and changes no other field; only an identifier failure gives
\* the placeholder.
C16_FieldFailureIsolated ==
  fn_pc = "returned" =>
    /\ ("error" \in DOMAIN fn_out) <=> (fn_in.fault = "id")
    /\ OptionalFault =>
         /\ DOMAIN fn_out \cap BlockOf(fn_in.fault) = {}
         /\ SameOutside(fn_out, ExtractRecord(fn_in.el, "none"), BlockOf(fn_in.fault))
\* C16 amended: the failing block keeps only what it had stored before the
\* failure (the date text, when the timestamp read fails) with the values
\* of a faultless read, and no field of another block changes.
C16_BlockFailureIsolated ==
  fn_pc = "returned" =>
    /\ ("error" \in DOMAIN fn_out) <=> (fn_in.fault = "id")
    /\ OptionalFault =>
         LET ref == ExtractRecord(fn_in.el, "none")
             kept == DOMAIN fn_out \cap BlockOf(fn_in.fault)
         IN /\ SameOutside(fn_out, ref, BlockOf(fn_in.fault))
            /\ kept = IF fn_in.fault = "timestamp" /\ fn_in.el.dateEl # "none"
                        THEN {"date"} ELSE {}
            /\ \A k \in kept : k \in DOMAIN ref /\ fn_out[k] = ref[k]
    /\ (fn_in.fault = "none" /\ fn_in.el.dateEl # "none" /\ fn_in.el.ts = "huge") =>
         DOMAIN fn_out \cap {"date", "timestamp", "datetime"} = {"date", "timestamp"}
\* The content read failed on an element with a date, views and media.
C16_Witness ==
  /\ fn_pc = "returned"
  /\ fn_in.fault = "content"
  /\ fn_in.el.content
  /\ DOMAIN fn_out = {"id", "date", "timestamp", "datetime", "views", "media"}

\* C17: _is_logged_in never raises; it returns true exactly when the marker
\* query returned an element, false when it returned nothing or failed.
C17_GateNeverRaises ==
  /\ [](authPc \in AfterGateSites => (gate <=> last_query = "element"))
  /\ [][(authPc \in GateSites) => (authPc' = AfterGate(authPc))]_vars
\* The marker query failed on an authenticated page and the gate said no.
C17_Witness ==
  /\ authPc = "after_gate_poll"
  /\ marker
  /\ last_query = "raised"
  /\ ~gate

\* C18: the channels of a batch are parsed one at a time on the shared page:
\* a page operation of the parser is under way only while main awaits that
\* parse, and main starts the next parse, or closes the browser, only when the
\* parse and the export of every earlier channel are over.
C18_OneChannelAtATime ==
  /\ [](pc # "idle" => mainPc = "parsing")
  /\ [][(mainPc \in {"parse", "closing"} /\ mainPc' # mainPc) => pc = "idle"]_vars
  /\ [][attempted' # attempted =>
          /\ pc = "idle"
          /\ mainPc = "loop"
          /\ \A i \in DOMAIN attempted : attempted[i] < chan_idx]_vars
\* The second channel is being parsed after the first was exported.
C18_Witness ==
  /\ mainPc = "parsing"
  /\ pc = "for"
  /\ Len(attempted) = 2
  /\ exported = <<1>>

\* The fields of a record at every depth: the path of names that leads to
\* each value that is not a dict.
RECURSIVE LeavesOf(_, _)
LeavesOf(d, path) ==
  UNION {IF d[k].t = "dict" THEN LeavesOf(d[k].v, Append(path, k))
         ELSE {<<Append(path, k), d[k]>>} : k \in DOMAIN d}
RECURSIVE Dotted(_)
Dotted(path) ==
  IF Len(path) = 1 THEN path ELSE <<path[1], ".">> \o Dotted(Tail(path))
IsJoined(pieces, items) ==
  /\ Len(pieces) = IF items = << >> THEN 0 ELSE 2 * Len(items) - 1
  /\ \A i \in DOMAIN items :
       /\ pieces[2 * i - 1] = StrOf(items[i])[1]
       /\ i > 1 => pieces[2 * i - 2] = "; "

\* C20: _flatten_post gives a mapping with only scalar values: a scalar
\* field keeps its key and value, a dict field is expanded into parent.child
\* keys at every depth, a list field becomes its items joined with "; ".
C20_FlattenPost ==
  fn_pc = "returned" =>
    LET leaves == LeavesOf(fn_in, << >>) IN
    /\ DOMAIN fn_out = {Dotted(leaf[1]) : leaf \in leaves}
    /\ \A k \in DOMAIN fn_out : fn_out[k].t \in {"scalar", "none"}
    /\ \A leaf \in leaves :
         IF leaf[2].t = "list"
           THEN IsJoined(fn_out[Dotted(leaf[1])].v, leaf[2].v)
           ELSE fn_out[Dotted(leaf[1])] = leaf[2]
\* A record with a media list and a dict nested two deep was flattened.
C20_Witness ==
  /\ fn_pc = "returned"
  /\ "media" \in DOMAIN fn_in /\ Len(fn_in.media.v) = 2
  /\ <<"content", ".", "url", ".", "type">> \in DOMAIN fn_out
  /\ <<"media">> \in DOMAIN fn_out

\* C19: with the format csv, a non-empty post list whose records carry
\* different optional fields, and no failing file operation, export_data
\* returns a .csv file with one row per post.
C19_CsvOneRowPerPost ==
  (fn_pc = "returned" /\ fn_in.format = "csv" /\ fn_in.posts # << >> /\ fn_in.io = {}) =>
    (fn_out.kind = "csv" /\ fn_out.rows = Len(fn_in.posts))

FullyQualified(identifier) ==
  StartsWith(identifier, "https://") \/ StartsWith(identifier, "http://")

\* C22: _navigate_to_channel drops one leading "@", then requests the
\* identifier verbatim when it is a fully-qualified location and the base
\* location with the identifier appended otherwise; one request is issued
\* for every identifier.
C22_OneRequestToResolvedLocation ==
  fn_pc = "navigated" =>
    LET identifier == StripMarker(fn_in) IN
    fn_out.requests = << IF FullyQualified(identifier) THEN identifier
                         ELSE BaseLocation \o identifier >>

\* C23: after the scroll batch of a round the idle counter grows by one
\* only if the round collected no new record and no scroll tick changed the
\* position; in every other case it is reset to 0.  Read on what a step
\* shows: a round with new records resets the counter; so does every round
\* on the history page, where the region is off its top when the batch
\* starts (lines 332-341) and the first tick moves it; and the counter
\* never does anything but grow by one or fall to 0.
C23_IdleOnlyWhenNothingHappened ==
  [][(pc = "scroll" /\ pc' = "loop") =>
       /\ (new_posts_in_batch > 0) => (consecutive_no_new_posts' = 0)
       /\ (pageKind = "history") => (consecutive_no_new_posts' = 0)
       /\ consecutive_no_new_posts' \in {0, consecutive_no_new_posts + 1}]_vars

\* C24: when the idle counter reaches 3 and the run continues, the engine
\* makes one corrective scroll jump, larger than the normal step, before
\* the next element query: the step taken at the loop test with the counter
\* at 3 moves a region that has room for it up by more than ScrollStepPx.
C24_CorrectiveJumpAtThree ==
  [][(/\ pc = "loop"
      /\ consecutive_no_new_posts = 3
      /\ ~LimitReached
      /\ hasColumn
      /\ scrollTop > ScrollStepPx
      /\ pc' # "returned")
       => (scrollTop' < scrollTop - ScrollStepPx)]_vars

\* C25: with no date filter, on a page where a backward scroll only reveals
\* posts older than every post rendered before, a record collected in an
\* earlier round has a timestamp later than or equal to that of a record
\* collected in a later round, when both carry one.  While a round runs,
\* the records of earlier rounds are those before the last
\* new_posts_in_batch entries of the list.
C25_EarlierRoundNewer ==
  (NoFilter /\ pageKind \in {"static", "history"} /\ pc \in {"for", "check", "scroll"}) =>
    \A p, q \in DOMAIN posts :
      (/\ p <= Len(posts) - new_posts_in_batch
       /\ q > Len(posts) - new_posts_in_batch
       /\ "timestamp" \in DOMAIN posts[p]
       /\ "timestamp" \in DOMAIN posts[q])
        => posts[p].timestamp >= posts[q].timestamp
\* The second round collected a post the scroll had revealed; the record of
\* the first round and the new one both carry a timestamp.
C25_Witness ==
  /\ NoFilter
  /\ pageKind = "history"
  /\ pc = "check"
  /\ Len(posts) = 2
  /\ new_posts_in_batch = 1
  /\ "timestamp" \in DOMAIN posts[1]
  /\ "timestamp" \in DOMAIN posts[2]
  /\ posts[1].timestamp > posts[2].timestamp

\* The day lies in the configured range, or no day was resolved.
DayInRange(day) ==
  \/ day = NoDate
  \/ /\ (start_date = NoDate \/ day >= start_date)
     /\ (end_date = NoDate \/ day <= end_date)

\* C26: once an element older than the start date has set the stop in the
\* middle of a round, the remaining elements of the round are still
\* handled one by one; each new one that is in range is extracted and
\* appended, up to the limit; the run ends only after the element loop, at
\* the test that follows it.
C26_RoundFinishedAfterStop ==
  /\ [][(pc = "for" /\ boundary_seen /\ Len(posts) < post_limit) =>
          /\ remaining' = remaining - 1
          /\ pc' = IF remaining = 1 THEN "check" ELSE "for"
          /\ (last'.new /\ DayInRange(last'.day)) =>
               (last'.app /\ Len(posts') = Len(posts) + 1)]_vars
  /\ [][(pc = "for") => (pc' \in {"for", "check"} /\ endReason' = endReason)]_vars
  /\ [][(pc = "check" /\ boundary_seen) =>
          (pc' = "returned" /\ retval' = posts)]_vars
\* An element was appended after an older one of the same round had set the
\* stop.
C26_Witness ==
  /\ pc \in {"for", "check"}
  /\ boundary_seen
  /\ last.new
  /\ last.app
  /\ last.day # NoDate
  /\ Len(posts) >= 1

\* C27: when the elements of a round are done, the limit is not reached
\* and the region's offset is within the top bound (<= 10), the run ends in
\* that round: no scroll tick is issued (the offset stays) and the idle
\* counter is not changed; the run ends by top reached unless the stop was
\* forced or the at-top call raised.  And a scroll tick leaves an offset
\* that is within the bound as it is and reports no change.
C27_TopEndsRun ==
  /\ [][(pc = "check" /\ ~LimitReached /\ hasColumn /\ scrollTop <= TopEpsilon) =>
          /\ pc' = "returned"
          /\ retval' = posts
          /\ scrollTop' = scrollTop
          /\ consecutive_no_new_posts' = consecutive_no_new_posts
          /\ (~IdleExhausted /\ endReason' # "error") => (endReason' = "top_reached")]_vars
  /\ [](\A s \in ScrollPositions \cup {scrollTop} :
          s <= TopEpsilon =>
            \A ch \in BOOLEAN :
              ScrollTick([top |-> s, lo |-> lo, changed |-> ch]) =
                [top |-> s, lo |-> lo, changed |-> ch])
\* A run that ended at the top with fewer records than the limit.
C27_Witness ==
  /\ pc = "done"
  /\ endReason = "top_reached"
  /\ hasColumn
  /\ scrollTop <= TopEpsilon
  /\ Len(retval) >= 1
  /\ Len(retval) < post_limit
  /\ consecutive_no_new_posts < max_no_new_attempts

\* C28: every round that does not end the run performs the backward scroll
\* batch and the settle pause before the next element query, a round whose
\* query returned no element included: after the first round, the loop
\* test and its query are reached only from the scroll batch.
C28_ScrollBeforeNextQuery ==
  [][(pc' = "loop" /\ pc # "init") => (pc = "scroll")]_vars

\* C29: the number of scroll ticks issued in a round equals the configured
\* scroll batch size, Config.batch_size as loaded from
\* parser.performance.batch_size, for every configured value.
C29_TicksEqualConfiguredBatch ==
  fn_pc = "scrolled" => fn_out.ticks = ConfigBatchSize(fn_in.entry)

\* C30: with a date range active, an element that carries a timestamp
\* attribute has its date resolved from it, whether or not a date or time
\* label element is under it: an element whose timestamp is before the
\* start date is reported out of range whenever the calls of
\* _is_date_in_range answer.
C30_TimestampBeforeStartOutOfRange ==
  (/\ fn_pc = "ranged"
   /\ fn_in.fault = "none"
   /\ start_date # NoDate
   /\ fn_in.el.ts # "none"
   /\ DayOf(fn_in.el.mid) < start_date)
    => ~fn_out.in_range

\* C31: with a date range active, a new element whose date is not resolved
\* (no timestamp and a label of no recognised form, or an error while the
\* date is read) is treated as in range: it is extracted and appended, and
\* it does not set the stop condition.
C31_UnresolvedDateInRange ==
  /\ [](~NoFilter /\ last.new /\ last.day = NoDate => last.app)
  /\ [][(~NoFilter /\ last'.new /\ last'.day = NoDate) =>
          /\ Len(posts') = Len(posts) + 1
          /\ consecutive_no_new_posts' = consecutive_no_new_posts
          /\ boundary_seen' = boundary_seen]_vars
\* Under a start date an element without a resolved date was appended.
C31_Witness ==
  /\ start_date # NoDate
  /\ pc \in {"for", "check"}
  /\ last.new
  /\ last.day = NoDate
  /\ last.app
  /\ posts[Len(posts)].id \in PostIds

\* The counts of all containers of an element, added up.
RECURSIVE SumContainers(_)
SumContainers(containers) ==
  IF containers = << >> THEN 0
  ELSE ContainerCount(Head(containers)) + SumContainers(Tail(containers))

\* C32: the reactions field of an extracted record equals the sum of the
\* counters of every reaction container under the element, a container
\* without inner counter contributing the first integer of its text.
C32_ReactionsSumAllContainers ==
  (fn_pc = "reacted" /\ "reactions" \in DOMAIN fn_out) =>
    fn_out.reactions = SumContainers(fn_in)

\* C33: within one parse_channel call the steps run in the order navigate,
\* read the channel metadata, scroll and collect: the metadata is read once
\* and only after the navigation confirmed a title, and the first element
\* query comes only after the metadata read has returned.
C33_NavigateInfoCollect ==
  /\ [][(pc' # pc) =>
          /\ (pc' # "navigate")
          /\ (pc' = "info") => (pc = "navigate" /\ endReason' = "")
          /\ (pc' = "init") => (pc = "info" /\ channel_info' # NoInfo)
          /\ (pc' = "loop") => (pc \in {"init", "scroll"})
          /\ (pc' = "for") => (pc = "loop")]_vars
  /\ [][(channel_info' # channel_info) => (pc = "info")]_vars
  /\ [](pc \in {"navigate", "raised"} => channel_info = NoInfo /\ processed_ids = {})
  /\ [](pc \in {"loop", "for", "check", "scroll"} => channel_info # NoInfo)
\* The first element query has returned elements, after the title was read.
C33_Witness ==
  /\ pc = "for"
  /\ channel_info.title = "title"
  /\ processed_ids = {}
  /\ posts = << >>
  /\ remaining >= 1

\* C34: export_data returns the path of a file it has written, or raises.
\* With an unknown format, with no posts under csv or xlsx, and when the
\* writer of the format fails, the JSON export of the same data is made
\* instead; RuntimeError is raised only when the named JSON file and the
\* fallback JSON file both fail to be written.
C34_ExportFallsBackToJson ==
  fn_pc = "returned" =>
    LET jsonKinds == {"json", "fallback_json", "raised"}
        jsonTried ==
          \/ fn_in.format \notin {"csv", "xlsx"}
          \/ fn_in.posts = << >>
          \/ fn_in.format = "csv" /\ fn_in.io \cap {"csv_open", "info_write"} # {}
          \/ fn_in.format = "xlsx" /\ "xlsx_write" \in fn_in.io
    IN /\ jsonTried => fn_out.kind \in jsonKinds
       /\ (fn_out.kind = "raised") =>
            ({"json_write", "fallback_write"} \subseteq fn_in.io)
       /\ (fn_out.kind = "json") => ("json_write" \notin fn_in.io)
       /\ (fn_out.kind = "fallback_json") => ("fallback_write" \notin fn_in.io)
       /\ (fn_out.kind = "csv") =>
            (fn_in.format = "csv" /\ "csv_open" \notin fn_in.io
               /\ fn_out.rows = Len(fn_in.posts))
       /\ (fn_out.kind = "xlsx") =>
            (fn_in.format = "xlsx" /\ "xlsx_write" \notin fn_in.io
               /\ fn_out.rows = Len(fn_in.posts))
\* The workbook and the named JSON file failed, the fallback file was
\* written.
C34_Witness ==
  /\ fn_pc = "returned"
  /\ fn_in.format = "xlsx"
  /\ fn_in.posts # << >>
  /\ fn_in.io = {"xlsx_write", "json_write"}
  /\ fn_out.kind = "fallback_json"

\* C35: login(force_login=True) forces a new login: also when the page is
\* already authenticated, the credential steps (phone number, code) are
\* performed before login returns, so a forced login returns only from the
\* wait for the confirmation that follows them.
C35_ForcedLoginEntersCredentials ==
  [][(force_login /\ authPc # "returned" /\ authPc' = "returned") =>
       (authPc \in {"after_gate_poll", "after_gate_2fa"})]_vars

\* C36: within one _get_posts run each identifier is handed to the date
\* check and the extraction at most once: the seen-set only grows, every
\* element that is handed on brings an identifier the set did not hold, and
\* so an element that was skipped as out of range, or whose handling
\* raised after its identifier was recorded, is not tried again in a later
\* round.
C36_HandledAtMostOnce ==
  /\ [][processed_ids \subseteq processed_ids']_vars
  /\ [][(pc = "for" /\ last'.new) =>
          (Cardinality(processed_ids') = Cardinality(processed_ids) + 1)]_vars
  /\ [][(pc = "for" /\ ~last'.new) =>
          (processed_ids' = processed_ids /\ posts' = posts)]_vars
  /\ [](Len(posts) <= Cardinality(processed_ids))
\* A later round is under way while the seen-set holds an identifier whose
\* element gave no record.
C36_Witness ==
  /\ pc = "for"
  /\ consecutive_no_new_posts >= 1
  /\ consecutive_no_new_posts < max_no_new_attempts
  /\ Cardinality(processed_ids) > Len(posts)
  /\ Len(posts) >= 1
  /\ last = Nothing
  /\ remaining < MaxElems

\* C37: every browser that login has launched during main is closed in the
\* end on every path, also when the login flow raises after the launch:
\* when main has finished no browser is open.
C37_BrowserClosedAtEnd ==
  mainPc = "closed" => ~browser_open

\* C38: login returns its (browser, page) pair only right after the session
\* gate has reported the page authenticated; when the captcha is not solved
\* within CaptchaPolls polls, or the login or the 2FA is not confirmed
\* within LoginPolls polls, it raises; and the session file is saved only
\* on a login the gate has confirmed.
C38_ReturnsOnlyWhenGateConfirms ==
  /\ [][(authPc # "returned" /\ authPc' = "returned") =>
          (authPc \in AfterGateSites /\ gate /\ last_query = "element")]_vars
  /\ [][(authPc = "captcha" /\ polls >= CaptchaPolls) => (authPc' = "raised")]_vars
  /\ [][(authPc \in {"after_gate_poll", "after_gate_2fa"} /\ ~gate
            /\ polls + 1 >= LoginPolls) => (authPc' = "raised")]_vars
  /\ [][(session_saved' # session_saved) =>
          (gate /\ authPc \in {"after_gate_poll", "after_gate_2fa"}
             /\ authPc' = "returned")]_vars
  /\ [](polls <= Max(LoginPolls, CaptchaPolls))
\* The login was confirmed after some waiting and the session was saved.
C38_Witness ==
  /\ authPc = "returned"
  /\ gate
  /\ polls >= 1
  /\ session_saved
  /\ ~force_login

\* C39: a setting loaded from the configuration file (limit, export
\* format, output directory, headless) stays in effect after
\* update_from_args when the user did not pass the option; only options
\* the user passed override the file.
C39_FileSettingsKept ==
  fn_pc = "configured" =>
    LET loaded == LoadConfig(fn_in.file) IN
    /\ (fn_in.file.limit # << >> /\ fn_in.cli.limit = << >>) =>
         (fn_out.limit = loaded.limit)
    /\ (fn_in.file.format # << >> /\ fn_in.cli.format = << >>) =>
         (fn_out.export_format = loaded.export_format)
    /\ (fn_in.file.directory # << >> /\ fn_in.cli.output = << >>) =>
         (fn_out.output_dir = loaded.output_dir)
    /\ (fn_in.file.headless # << >> /\ ~fn_in.cli.headless) =>
         (fn_out.headless = loaded.headless)

\* C40: every channel entry the channel-list loader accepts (one with a
\* name, username, id or url) is attempted by main's parse loop; an entry
\* that carries only a url is parsed, not skipped.
C40_AcceptedEntriesAttempted ==
  (mainPc = "closing") =>
    \A i \in DOMAIN channels :
      LoaderAccepts(channels[i]) => (\E k \in DOMAIN attempted : attempted[k] = i)
====
